---- MODULE Spec2Model ----
(***************************************************************************)
(* rfstat: the scan / filter / sort / aggregate / format pipeline.         *)
(*                                                                         *)
(* A path is a sequence of file names, the root's name first; a file name  *)
(* is a sequence of bytes, each written as a one-symbol string ("xFF" is   *)
(* a byte that is not valid UTF-8).  An Option is a sequence of length at  *)
(* most one: None is << >> and Some(x) is <<x>>.                           *)
(***************************************************************************)
EXTENDS Integers, Sequences, FiniteSets, TLC

(***************************************************************************)
(* Bounds of the model.                                                    *)
(***************************************************************************)
\* number of file-system objects below the root
MaxNodes == 2
\* metadata queries and directory reads that fail during one scan
MaxFailures == 2
\* largest value given to --depth
MaxDepthArg == 2
\* longest entry list handed to calculate_stats on its own
MaxLen == 3
\* the longest entry list of the bucket-edge runs of calculate_stats
MaxBucketLen == 2
\* longest entry list handed to filter_entries on its own
MaxFilterLen == 2
\* calls of filter_entries in a row, each on the result of the one before
MaxFilterCalls == 2
\* longest entry list handed to sort_entries on its own
MaxSortLen == 3
\* calls of sort_entries in a row on the same list
MaxSortCalls == 2
\* longest entry list of the runs of calculate_stats on sizes next to u64::MAX
MaxOverflowLen == 2

VARIABLES
    fs,          \* the tree: path below the root (<< >> is the root) -> kind
    root,        \* the root's file name
    cli,         \* the command line of the run
    config,      \* Config handed to scan_directory
    pc,          \* position of the run
    todo,        \* the walker's pending paths (below the root), next first
    entries,     \* the entry list being built, filtered, sorted, aggregated
    scanResult,  \* what scan_directory returned
    failed,      \* paths whose metadata query failed
    unreadable,  \* directories whose read_dir failed
    queried,     \* paths create_file_entry was invoked for
    visits,      \* the paths the walker yielded, in order
    nfail,       \* failures so far
    filters,     \* FileFilters built from the command line
    kept,        \* what each call of filter_entries returned, in order
    sorts,       \* the list each call of sort_entries was given, in order
    stats,       \* the FileStats being computed
    file_sizes,  \* calculate_stats: the sizes pushed so far
    idx,         \* calculate_stats: entries folded so far
    output,      \* what format_output wrote
    runResult,   \* what run returned
    steps        \* the pipeline steps taken, in order

fsVars == <<fs, root, cli>>
scanVars == <<todo, scanResult, failed, unreadable, queried, visits, nfail>>
statVars == <<stats, file_sizes, idx>>
runVars == <<filters, kept, sorts, output, runResult>>
vars == <<fsVars, config, pc, entries, steps, scanVars, statVars, runVars>>

None == << >>
Some(x) == <<x>>

Last(s) == s[Len(s)]
Front(s) == SubSeq(s, 1, Len(s) - 1)
Range(s) == {s[i] : i \in DOMAIN s}

(***************************************************************************)
(* File names and paths.                                                   *)
(***************************************************************************)
NameFile == <<"a", ".", "T">>
NameHidden == <<".", "h">>
NameRaw == <<".", "xFF">>
Names == {NameFile, NameHidden, NameRaw}
RootNames == {<<"r">>, <<".", "r">>}
\* the names of the scenario tree: a.txt, b.log, d and d/c.txt
NameTxt == <<"a", ".", "t", "x", "t">>
NameLog == <<"b", ".", "l", "o", "g">>
NameSub == <<"d">>
NameNested == <<"c", ".", "t", "x", "t">>

\* OsStr::to_str: None unless the bytes are valid UTF-8
to_str(name) ==
    IF \A i \in DOMAIN name : name[i] # "xFF" THEN Some(name) ELSE None

\* str::to_lowercase, byte by byte
LowerByte(b) ==
    CASE b = "B" -> "b" [] b = "K" -> "k" [] b = "R" -> "r" [] b = "T" -> "t"
      [] b = "X" -> "x" [] OTHER -> b
to_lowercase(s) == [i \in DOMAIN s |-> LowerByte(s[i])]

\* Path::extension: the part of the file name after its last '.', none when
\* the name has no '.' or only a leading one
LastDot(name) ==
    IF \E i \in DOMAIN name : name[i] = "."
    THEN CHOOSE i \in DOMAIN name :
             name[i] = "." /\ \A j \in DOMAIN name : name[j] = "." => j <= i
    ELSE 0
extension(path) ==
    LET name == Last(path)
        i == LastDot(name)
    IN  IF i <= 1 THEN None ELSE Some(SubSeq(name, i + 1, Len(name)))

\* the name's first byte is '.'
BeginsWithDot(path) == Last(path)[1] = "."

is_hidden_utf8_only(path) ==
    LET s == to_str(Last(path))
    IN  IF s = None THEN FALSE ELSE s[1][1] = "."
is_hidden(path) == is_hidden_utf8_only(path)

(***************************************************************************)
(* The file system.                                                        *)
(***************************************************************************)
Kinds == {"file", "dir", "symlink", "other"}

\* the paths a new object can take in tree f: a new name in one of its directories
NewPaths(f) ==
    UNION { {q \o <<nm>> : nm \in Names} : q \in {x \in DOMAIN f : f[x] = "dir"} }
        \ DOMAIN f
Extend(f) == { f @@ (p :> k) : p \in NewPaths(f), k \in Kinds }

\* the trees under a directory root with at most n objects below it
RECURSIVE Trees(_)
Trees(n) ==
    IF n = 0 THEN { (<< >> :> "dir") }
    ELSE LET S == Trees(n - 1) IN S \cup UNION { Extend(f) : f \in S }

\* a root that does not exist, a root that is a regular file or another kind
\* of object, and the directory roots
NoRoot == [x \in {} |-> "dir"]
FileSystems ==
    {NoRoot, (<< >> :> "file"), (<< >> :> "other")} \cup Trees(MaxNodes)

\* a symlink points to the root directory: resolving a path replaces every
\* prefix that is a symlink by the root
RECURSIVE Real(_)
Real(p) ==
    IF p = << >> THEN << >>
    ELSE LET q == Real(Front(p)) \o <<Last(p)>>
         IN  IF q \in DOMAIN fs /\ fs[q] = "symlink" THEN << >> ELSE q

\* what fs::metadata reports (links followed) and what the directory entry
\* reports (the last component not followed)
MetaKind(p) == fs[Real(p)]
EntryKind(p) ==
    IF p = << >> THEN fs[p] ELSE fs[Real(Front(p)) \o <<Last(p)>>]
read_dir(p) ==
    {Last(q) : q \in {x \in DOMAIN fs : x # << >> /\ Front(x) = Real(p)}}

\* length, modification time and mode of the object at a resolved path
FileLen(p) ==
    IF p = << >> THEN 1024
    ELSE IF Last(p) = NameFile THEN 2000 * Len(p)
    ELSE IF Last(p) = NameLog THEN 2000
    ELSE IF Last(p) = NameNested THEN 2000000
    ELSE 500
MTime(p) == IF p = << >> THEN 0 ELSE IF Last(p) = NameFile THEN 7 ELSE Len(p)
Mode(k) == IF k = "dir" THEN 493 ELSE 420

PathOf(p) == <<root>> \o p

(***************************************************************************)
(* scanner.rs                                                              *)
(***************************************************************************)
\* an entry whose metadata is not a regular file has no file_type
file_type_of_unchecked(path, k) ==
    LET e == extension(path)
    IN  IF e = None THEN None
        ELSE LET s == to_str(e[1])
             IN  IF s = None THEN None ELSE Some(to_lowercase(s[1]))
file_type_of(path, k) ==
    IF k = "file" THEN file_type_of_unchecked(path, k) ELSE None

\* create_file_entry once fs::metadata has succeeded
create_file_entry(p) ==
    LET k == MetaKind(p)
        path == PathOf(p)
    IN  [path |-> path,
         size |-> IF k = "file" THEN FileLen(Real(p)) ELSE 0,
         is_dir |-> k = "dir",
         modified |-> MTime(Real(p)),
         permissions |-> Mode(k),
         file_type |-> file_type_of(path, k)]

\* create_walker: the depth limit handed to WalkDir, none when unbounded
walker_max_depth_ignores_recursive(cfg) == cfg.max_depth
walker_max_depth(cfg) ==
    IF ~cfg.recursive THEN Some(1)
    ELSE IF cfg.max_depth # None THEN cfg.max_depth
    ELSE None

follow_links_on == TRUE
follow_links == FALSE

\* WalkDir opens the entry at p (depth Len(p)) when it is a directory, or a
\* link to one when links are followed, and its depth is below the limit
Descends(p) ==
    LET k == EntryKind(p)
        lim == walker_max_depth(config)
    IN  /\ \/ k = "dir"
           \/ follow_links /\ k = "symlink" /\ MetaKind(p) = "dir"
        /\ lim = None \/ Len(p) < lim[1]

Perms(S) ==
    {s \in [1..Cardinality(S) -> S] : \A i, j \in DOMAIN s : s[i] = s[j] => i = j}

\* a query may fail while failures remain in the bound
Outcomes(n) == IF n < MaxFailures THEN {TRUE, FALSE} ELSE {TRUE}
Cost(ok) == IF ok THEN 0 ELSE 1

Ok(v) == [ok |-> TRUE, value |-> v]
Err(e) == [ok |-> FALSE, error |-> e]
NoResult == [ok |-> FALSE, error |-> "pending"]

\* scan_directory returns the root alone when path.is_dir() is false
returns_single(isdir) == ~isdir

\* process_dir_entry skips the entry of depth 0 that is a directory
is_scan_root_never(depth, isdir) == FALSE
is_scan_root(depth, isdir) == depth = 0 /\ isdir

\* the loop's Err arm logs and goes on: the error of an entry does not end
\* the scan
entry_error_is_fatal_yes == TRUE
entry_error_is_fatal == FALSE

\* scan_directory, path.exists() is false
ScanNotFound ==
    /\ pc = "scan"
    /\ << >> \notin DOMAIN fs
    /\ scanResult' = Err("PathNotFound")
    /\ pc' = "scanned"
    /\ steps' = Append(steps, "scan")
    /\ UNCHANGED <<fsVars, config, entries, todo, failed, unreadable, queried,
                   visits, nfail, statVars, runVars>>

\* scan_directory, path.is_dir() is false: the root alone is built, and the
\* error of create_file_entry is returned
ScanSingle ==
    /\ pc = "scan"
    /\ << >> \in DOMAIN fs
    /\ returns_single(fs[<< >>] = "dir")
    /\ \E okm \in Outcomes(nfail) :
         /\ scanResult' = IF okm THEN Ok(<<create_file_entry(<< >>)>>)
                          ELSE Err("Io")
         /\ failed' = failed \cup (IF okm THEN {} ELSE {<< >>})
         /\ nfail' = nfail + Cost(okm)
    /\ queried' = queried \cup {<< >>}
    /\ pc' = "scanned"
    /\ steps' = Append(steps, "scan")
    /\ UNCHANGED <<fsVars, config, entries, todo, unreadable, visits,
                   statVars, runVars>>

\* scan_directory, the root is a directory: the walker is created
ScanWalk ==
    /\ pc = "scan"
    /\ << >> \in DOMAIN fs
    /\ ~returns_single(fs[<< >>] = "dir")
    /\ todo' = << << >> >>
    /\ entries' = << >>
    /\ pc' = "walk"
    /\ steps' = Append(steps, "scan")
    /\ UNCHANGED <<fsVars, config, scanResult, failed, unreadable, queried,
                   visits, nfail, statVars, runVars>>

\* one iteration of the loop over the walker: WalkDir yields the next path,
\* having opened it if it descends (a directory that cannot be read yields
\* an error item, which is logged); process_dir_entry decides on the path
WalkStep ==
    /\ pc = "walk"
    /\ todo # << >>
    /\ LET p == Head(todo)
           path == PathOf(p)
           opens == Descends(p)
           skipHidden == ~config.show_hidden /\ is_hidden(path)
           skipRoot == ~skipHidden /\ is_scan_root(Len(p), MetaKind(p) = "dir")
           builds == ~skipHidden /\ ~skipRoot
       IN  \E rd \in (IF opens THEN Outcomes(nfail) ELSE {TRUE}) :
           \E okm \in (IF builds THEN Outcomes(nfail + Cost(rd)) ELSE {TRUE}) :
           \E order \in (IF opens /\ rd THEN Perms(read_dir(p)) ELSE {<< >>}) :
             /\ visits' = Append(visits, p)
             /\ unreadable' = IF rd THEN unreadable ELSE unreadable \cup {p}
             /\ queried' = IF builds THEN queried \cup {p} ELSE queried
             /\ failed' = failed \cup (IF okm THEN {} ELSE {p})
             /\ nfail' = nfail + Cost(rd) + Cost(okm)
             /\ entries' = IF builds /\ okm
                           THEN Append(entries, create_file_entry(p))
                           ELSE entries
             /\ IF builds /\ ~okm /\ entry_error_is_fatal
                THEN /\ scanResult' = Err("Io")
                     /\ pc' = "scanned"
                     /\ todo' = << >>
                ELSE /\ todo' = [i \in 1..Len(order) |-> p \o <<order[i]>>]
                                   \o Tail(todo)
                     /\ UNCHANGED <<scanResult, pc>>
    /\ UNCHANGED <<fsVars, config, steps, statVars, runVars>>

\* scan_directory, the walker is exhausted: Ok(entries)
ScanReturn ==
    /\ pc = "walk"
    /\ todo = << >>
    /\ scanResult' = Ok(entries)
    /\ pc' = "scanned"
    /\ UNCHANGED <<fsVars, config, entries, steps, todo, failed, unreadable,
                   queried, visits, nfail, statVars, runVars>>

(***************************************************************************)
(* scanner.rs: filtering and sorting.                                      *)
(***************************************************************************)
Contains(v, x) == \E i \in DOMAIN v : v[i] = x

\* apply_filters with the extension filter applied to directories as well
apply_filters_extension_on_directories(entry, f) ==
    /\ ~(f.files_only /\ entry.is_dir)
    /\ ~(f.dirs_only /\ ~entry.is_dir)
    /\ (f.extensions # None) =>
           /\ entry.file_type # None
           /\ Contains(f.extensions[1], entry.file_type[1])
    /\ (~entry.is_dir /\ f.min_size # None) => ~(entry.size < f.min_size[1])
    /\ (~entry.is_dir /\ f.max_size # None) => ~(entry.size > f.max_size[1])
\* apply_filters with a file of exactly min_size or max_size rejected
apply_filters_exclusive_bounds(entry, f) ==
    /\ ~(f.files_only /\ entry.is_dir)
    /\ ~(f.dirs_only /\ ~entry.is_dir)
    /\ (f.extensions # None /\ ~entry.is_dir) =>
           /\ entry.file_type # None
           /\ Contains(f.extensions[1], entry.file_type[1])
    /\ (~entry.is_dir /\ f.min_size # None) => ~(entry.size <= f.min_size[1])
    /\ (~entry.is_dir /\ f.max_size # None) => ~(entry.size >= f.max_size[1])

\* apply_filters
apply_filters(entry, f) ==
    /\ ~(f.files_only /\ entry.is_dir)
    /\ ~(f.dirs_only /\ ~entry.is_dir)
    /\ (f.extensions # None /\ ~entry.is_dir) =>
           /\ entry.file_type # None
           /\ Contains(f.extensions[1], entry.file_type[1])
    /\ (~entry.is_dir /\ f.min_size # None) => ~(entry.size < f.min_size[1])
    /\ (~entry.is_dir /\ f.max_size # None) => ~(entry.size > f.max_size[1])

\* the selection without its first element
filter_entries_drops_first(es, f) ==
    LET sel == SelectSeq(es, LAMBDA e : apply_filters(e, f))
    IN  IF sel = << >> THEN sel ELSE Tail(sel)
\* the selection in the opposite order
filter_entries_reversed(es, f) ==
    LET sel == SelectSeq(es, LAMBDA e : apply_filters(e, f))
    IN  [i \in 1..Len(sel) |-> sel[Len(sel) + 1 - i]]
filter_entries(es, f) == SelectSeq(es, LAMBDA e : apply_filters(e, f))

\* the order of bytes
ByteCode(b) ==
    CASE b = " " -> 32 [] b = "," -> 44 [] b = "." -> 46
      [] b = "0" -> 48 [] b = "1" -> 49 [] b = "5" -> 53
      [] b = "B" -> 66 [] b = "K" -> 75 [] b = "T" -> 84 [] b = "X" -> 88
      [] b = "_" -> 95 [] b = "a" -> 97 [] b = "b" -> 98 [] b = "c" -> 99
      [] b = "d" -> 100 [] b = "e" -> 101 [] b = "g" -> 103 [] b = "h" -> 104 [] b = "i" -> 105
      [] b = "k" -> 107 [] b = "l" -> 108 [] b = "n" -> 110 [] b = "o" -> 111
      [] b = "r" -> 114 [] b = "s" -> 115 [] b = "t" -> 116 [] b = "x" -> 120
      [] b = "xFF" -> 255

\* the comparison of two integers with Less and Greater exchanged
CmpInt_reversed(a, b) == IF a < b THEN 1 ELSE IF a > b THEN -1 ELSE 0

\* Ord::cmp as -1 (Less), 0 (Equal), 1 (Greater)
CmpInt(a, b) == IF a < b THEN -1 ELSE IF a > b THEN 1 ELSE 0

\* the comparison of two strings, byte by byte
RECURSIVE CmpBytes(_, _)
CmpBytes(a, b) ==
    IF a = << >> THEN (IF b = << >> THEN 0 ELSE -1)
    ELSE IF b = << >> THEN 1
    ELSE LET c == CmpInt(ByteCode(Head(a)), ByteCode(Head(b)))
         IN  IF c # 0 THEN c ELSE CmpBytes(Tail(a), Tail(b))

\* the comparison of two paths, component by component
RECURSIVE CmpPath(_, _)
CmpPath(a, b) ==
    IF a = << >> THEN (IF b = << >> THEN 0 ELSE -1)
    ELSE IF b = << >> THEN 1
    ELSE LET c == CmpBytes(Head(a), Head(b))
         IN  IF c # 0 THEN c ELSE CmpPath(Tail(a), Tail(b))

\* the comparison with Size smallest first
compare_size_ascending(sort_by, a, b) ==
    CASE sort_by = "Name" -> CmpPath(a.path, b.path)
      [] sort_by = "Size" -> CmpInt(a.size, b.size)
      [] sort_by = "Modified" -> CmpInt(b.modified, a.modified)
      [] sort_by = "Type" ->
           IF a.file_type # None /\ b.file_type # None
           THEN CmpBytes(a.file_type[1], b.file_type[1])
           ELSE IF a.file_type # None THEN -1
           ELSE IF b.file_type # None THEN 1
           ELSE CmpPath(a.path, b.path)
\* the comparison with Type putting the entries without file_type first
compare_untyped_first(sort_by, a, b) ==
    CASE sort_by = "Name" -> CmpPath(a.path, b.path)
      [] sort_by = "Size" -> CmpInt(b.size, a.size)
      [] sort_by = "Modified" -> CmpInt(b.modified, a.modified)
      [] sort_by = "Type" ->
           IF a.file_type # None /\ b.file_type # None
           THEN CmpBytes(a.file_type[1], b.file_type[1])
           ELSE IF a.file_type # None THEN 1
           ELSE IF b.file_type # None THEN -1
           ELSE CmpPath(a.path, b.path)

\* the comparison sort_entries hands to sort_by
compare(sort_by, a, b) ==
    CASE sort_by = "Name" -> CmpPath(a.path, b.path)
      [] sort_by = "Size" -> CmpInt(b.size, a.size)
      [] sort_by = "Modified" -> CmpInt(b.modified, a.modified)
      [] sort_by = "Type" ->
           IF a.file_type # None /\ b.file_type # None
           THEN CmpBytes(a.file_type[1], b.file_type[1])
           ELSE IF a.file_type # None THEN -1
           ELSE IF b.file_type # None THEN 1
           ELSE CmpPath(a.path, b.path)

\* an insertion that puts x before the elements equal to it
RECURSIVE InsertSorted_before_equals(_, _, _)
InsertSorted_before_equals(x, sorted, sort_by) ==
    IF sorted = << >> THEN <<x>>
    ELSE IF compare(sort_by, x, Head(sorted)) <= 0 THEN <<x>> \o sorted
    ELSE <<Head(sorted)>> \o InsertSorted_before_equals(x, Tail(sorted), sort_by)

\* slice::sort_by is a stable sort: x goes before the first element that is
\* greater than it
RECURSIVE InsertSorted(_, _, _)
InsertSorted(x, sorted, sort_by) ==
    IF sorted = << >> THEN <<x>>
    ELSE IF compare(sort_by, x, Head(sorted)) < 0 THEN <<x>> \o sorted
    ELSE <<Head(sorted)>> \o InsertSorted(x, Tail(sorted), sort_by)

RECURSIVE sort_entries(_, _)
sort_entries(es, sort_by) ==
    IF es = << >> THEN << >>
    ELSE InsertSorted(Last(es), sort_entries(Front(es), sort_by), sort_by)

(***************************************************************************)
(* types.rs and stats.rs                                                   *)
(***************************************************************************)
\* u64::MAX, written as the largest integer TLC represents: every size of
\* the model is below it
U64_MAX == 2147483647

\* the addition of two u64: a sum above u64::MAX wraps around when the
\* build has no overflow checks (and panics when it has them, StatsPanic)
u64_overflows(a, b) == a > U64_MAX - b
u64_add(a, b) == IF u64_overflows(a, b) THEN a - (U64_MAX - b) - 1 ELSE a + b

NoTypes == [x \in {} |-> 0]
NoExtension == <<"n", "o", "_", "e", "x", "t", "e", "n", "s", "i", "o", "n">>

SizeDistribution_new == [tiny |-> 0, small |-> 0, medium |-> 0, large |-> 0, huge |-> 0]
TypeStats_new == [count |-> 0, total_size |-> 0, avg_size |-> 0]
FileStats_new ==
    [total_files |-> 0, total_dirs |-> 0, total_size |-> 0, avg_file_size |-> 0,
     max_file_size |-> 0, min_file_size |-> U64_MAX, file_types |-> NoTypes,
     size_distribution |-> SizeDistribution_new, entries |-> << >>]

\* add_size with each boundary value left in the lower bucket
add_size_boundary_below(d, size) ==
    IF size <= 1024 THEN [d EXCEPT !.tiny = @ + 1]
    ELSE IF size <= 1048576 THEN [d EXCEPT !.small = @ + 1]
    ELSE IF size <= 104857600 THEN [d EXCEPT !.medium = @ + 1]
    ELSE IF size <= 1073741824 THEN [d EXCEPT !.large = @ + 1]
    ELSE [d EXCEPT !.huge = @ + 1]

\* SizeDistribution::add_size
add_size(d, size) ==
    IF size <= 1023 THEN [d EXCEPT !.tiny = @ + 1]
    ELSE IF size <= 1048575 THEN [d EXCEPT !.small = @ + 1]
    ELSE IF size <= 104857599 THEN [d EXCEPT !.medium = @ + 1]
    ELSE IF size <= 1073741823 THEN [d EXCEPT !.large = @ + 1]
    ELSE [d EXCEPT !.huge = @ + 1]

\* file_types.insert(key, ..): the statistics of the key start again
add_type_overwrites(ft, key, size) ==
    [k \in DOMAIN ft \cup {key} |->
        IF k = key THEN [TypeStats_new EXCEPT !.count = 1, !.total_size = size]
        ELSE ft[k]]

\* file_types.entry(key).or_default(), then count += 1 and total_size += size
add_type(ft, key, size) ==
    LET old == IF key \in DOMAIN ft THEN ft[key] ELSE TypeStats_new
    IN  [k \in DOMAIN ft \cup {key} |->
            IF k = key
            THEN [old EXCEPT !.count = @ + 1, !.total_size = u64_add(@, size)]
            ELSE ft[k]]

\* the loop body adding the size of a directory to total_size as well
fold_entry_sizes_directories(st, e) ==
    IF e.is_dir
    THEN [st EXCEPT !.total_dirs = @ + 1, !.total_size = @ + e.size]
    ELSE [st EXCEPT
            !.total_files = @ + 1,
            !.total_size = @ + e.size,
            !.size_distribution = add_size(@, e.size),
            !.file_types = add_type(@, IF e.file_type = None THEN NoExtension
                                       ELSE e.file_type[1], e.size)]

\* the body of calculate_stats's loop, for one entry
fold_entry_counts_files_only(st, e) ==
    IF e.is_dir THEN st ELSE [st EXCEPT !.total_files = @ + 1]
fold_entry(st, e) ==
    IF e.is_dir THEN [st EXCEPT !.total_dirs = @ + 1]
    ELSE [st EXCEPT
            !.total_files = @ + 1,
            !.total_size = u64_add(@, e.size),
            !.size_distribution = add_size(@, e.size),
            !.file_types = add_type(@, IF e.file_type = None THEN NoExtension
                                       ELSE e.file_type[1], e.size)]

MaxOf(s) == CHOOSE x \in Range(s) : \A y \in Range(s) : y <= x
MinOf(s) == CHOOSE x \in Range(s) : \A y \in Range(s) : x <= y

\* calculate_stats's tail without the maximum and the minimum
finish_stats_without_extremes(st, sizes, es) ==
    [st EXCEPT
       !.avg_file_size = IF st.total_files > 0
                         THEN st.total_size \div st.total_files ELSE @,
       !.entries = es]

\* calculate_stats's tail without the copy of the entries
finish_stats_drops_entries(st, sizes, es) ==
    LET a == IF st.total_files > 0
             THEN [st EXCEPT
                     !.avg_file_size = st.total_size \div st.total_files,
                     !.max_file_size = IF sizes # << >> THEN MaxOf(sizes) ELSE @,
                     !.min_file_size = IF sizes # << >> THEN MinOf(sizes) ELSE @]
             ELSE st
        ft == a.file_types
    IN  [a EXCEPT
           !.file_types = [k \in DOMAIN ft |->
               IF ft[k].count > 0
               THEN [ft[k] EXCEPT !.avg_size = ft[k].total_size \div ft[k].count]
               ELSE ft[k]]]

\* calculate_stats after the loop: the derived statistics and the entries
finish_stats(st, sizes, es) ==
    LET a == IF st.total_files > 0
             THEN [st EXCEPT
                     !.avg_file_size = st.total_size \div st.total_files,
                     !.max_file_size = IF sizes # << >> THEN MaxOf(sizes) ELSE @,
                     !.min_file_size = IF sizes # << >> THEN MinOf(sizes) ELSE @]
             ELSE st
        ft == a.file_types
    IN  [a EXCEPT
           !.file_types = [k \in DOMAIN ft |->
               IF ft[k].count > 0
               THEN [ft[k] EXCEPT !.avg_size = ft[k].total_size \div ft[k].count]
               ELSE ft[k]],
           !.entries = es]

\* calculate_stats as a function of the list: the loop, then the tail
RECURSIVE fold_entries(_, _)
fold_entries(st, es) ==
    IF es = << >> THEN st ELSE fold_entries(fold_entry(st, Head(es)), Tail(es))
RECURSIVE pushed_sizes(_)
pushed_sizes(es) ==
    IF es = << >> THEN << >>
    ELSE (IF Head(es).is_dir THEN << >> ELSE <<Head(es).size>>)
         \o pushed_sizes(Tail(es))
calculate_stats(es) ==
    finish_stats(fold_entries(FileStats_new, es), pushed_sizes(es), es)

\* calculate_stats: FileStats::new() and the empty list of sizes
StatsBegin ==
    /\ pc = "stats"
    /\ stats' = FileStats_new
    /\ file_sizes' = << >>
    /\ idx' = 0
    /\ pc' = "fold"
    /\ steps' = Append(steps, "aggregate")
    /\ UNCHANGED <<fsVars, config, entries, scanVars, runVars>>

\* calculate_stats: one iteration of the loop over the entries
StatsStep ==
    /\ pc = "fold"
    /\ idx < Len(entries)
    /\ LET e == entries[idx + 1]
       IN  /\ stats' = fold_entry(stats, e)
           /\ file_sizes' = IF e.is_dir THEN file_sizes
                            ELSE Append(file_sizes, e.size)
    /\ idx' = idx + 1
    /\ UNCHANGED <<fsVars, config, pc, entries, steps, scanVars, runVars>>

\* calculate_stats: total_size += entry.size overflows in a build with
\* overflow checks, the thread panics
StatsPanic ==
    /\ pc = "fold"
    /\ idx < Len(entries)
    /\ ~entries[idx + 1].is_dir
    /\ u64_overflows(stats.total_size, entries[idx + 1].size)
    /\ pc' = "panicked"
    /\ UNCHANGED <<fsVars, config, entries, steps, scanVars, statVars, runVars>>

\* calculate_stats: the loop is over
StatsFinish ==
    /\ pc = "fold"
    /\ idx = Len(entries)
    /\ stats' = finish_stats(stats, file_sizes, entries)
    /\ pc' = "aggregated"
    /\ UNCHANGED <<fsVars, config, entries, steps, scanVars, file_sizes, idx,
                   runVars>>

(***************************************************************************)
(* cli.rs                                                                  *)
(***************************************************************************)
UpperByte(b) ==
    CASE b = "a" -> "A" [] b = "b" -> "B" [] b = "c" -> "C" [] b = "g" -> "G"
      [] b = "i" -> "I" [] b = "k" -> "K" [] b = "m" -> "M" [] b = "x" -> "X"
      [] OTHER -> b
to_uppercase(s) == [i \in DOMAIN s |-> UpperByte(s[i])]
Alphabetic(b) == b \in {"A", "B", "C", "G", "I", "K", "M", "X"}
Digits == {"0", "1", "5"}
DigitValue(b) == CASE b = "0" -> 0 [] b = "1" -> 1 [] b = "5" -> 5

\* str::parse::<f64> on the number part: the model's numbers have digits only
RECURSIVE NumberValue(_)
NumberValue(s) ==
    IF s = << >> THEN 0 ELSE 10 * NumberValue(Front(s)) + DigitValue(Last(s))
ParsesAsNumber(s) == s # << >> /\ \A i \in DOMAIN s : s[i] \in Digits

\* the units of parse_size (TB and TIB are above TLC's integers and
\* no size string of the model uses them)
UnitOf(u) ==
    CASE u = << >> -> Some(1)
      [] u = <<"B">> -> Some(1)
      [] u = <<"K", "B">> -> Some(1000)
      [] u = <<"M", "B">> -> Some(1000000)
      [] u = <<"G", "B">> -> Some(1000000000)
      [] u = <<"K", "I", "B">> -> Some(1024)
      [] u = <<"M", "I", "B">> -> Some(1048576)
      [] u = <<"G", "I", "B">> -> Some(1073741824)
      [] OTHER -> None

\* Cli::parse_size
parse_size(size_str) ==
    LET up == to_uppercase(size_str)
        pos == IF \E i \in DOMAIN up : Alphabetic(up[i])
               THEN CHOOSE i \in DOMAIN up :
                        Alphabetic(up[i]) /\ \A j \in 1..(i - 1) : ~Alphabetic(up[j])
               ELSE Len(up) + 1
        number_part == SubSeq(up, 1, pos - 1)
        unit_part == SubSeq(up, pos, Len(up))
    IN  IF ~ParsesAsNumber(number_part) THEN Err("Invalid number")
        ELSE IF UnitOf(unit_part) = None THEN Err("Unknown unit")
        ELSE Ok(NumberValue(number_part) * UnitOf(unit_part)[1])

\* Cli::get_min_size_bytes and Cli::get_max_size_bytes
get_size_bytes(opt) ==
    IF opt = None THEN Ok(None)
    ELSE LET r == parse_size(opt[1])
         IN  IF r.ok THEN Ok(Some(r.value)) ELSE r

\* str::split(','), str::trim
RECURSIVE SplitComma(_)
SplitComma(s) ==
    IF \E i \in DOMAIN s : s[i] = ","
    THEN LET i == CHOOSE i \in DOMAIN s :
                      s[i] = "," /\ \A j \in 1..(i - 1) : s[j] # ","
         IN  <<SubSeq(s, 1, i - 1)>> \o SplitComma(SubSeq(s, i + 1, Len(s)))
    ELSE <<s>>
RECURSIVE Trim(_)
Trim(s) ==
    IF s # << >> /\ Head(s) = " " THEN Trim(Tail(s))
    ELSE IF s # << >> /\ Last(s) = " " THEN Trim(Front(s))
    ELSE s

\* Cli::parse_extensions
parse_extensions(c) ==
    IF c.extensions = None THEN None
    ELSE LET parts == SplitComma(c.extensions[1])
             mapped == [i \in DOMAIN parts |-> to_lowercase(Trim(parts[i]))]
         IN  Some(SelectSeq(mapped, LAMBDA x : x # << >>))

\* Cli::to_config
to_config(c) ==
    [format |-> c.format, sort_by |-> c.sort, show_hidden |-> c.all,
     recursive |-> ~c.no_recursive, max_depth |-> c.depth]

(***************************************************************************)
(* formatter.rs                                                            *)
(***************************************************************************)
Min(a, b) == IF a < b THEN a ELSE b

\* the last entries of the list instead of the first
limited_from_end(es, limit) ==
    IF limit = None THEN es
    ELSE SubSeq(es, Len(es) - Min(Len(es), limit[1]) + 1, Len(es))

\* &stats.entries[..stats.entries.len().min(limit)]
limited(es, limit) ==
    IF limit = None THEN es ELSE SubSeq(es, 1, Min(Len(es), limit[1]))

NoOutput ==
    [format |-> "none", summary |-> None, rows |-> << >>, types |-> NoTypes,
     document |-> None]

\* write_summary_header: what it prints of the statistics
summary_header(st) ==
    [total_files |-> st.total_files, total_dirs |-> st.total_dirs,
     total_size |-> st.total_size,
     sizes |-> IF st.total_files > 0
               THEN Some([average |-> st.avg_file_size,
                          largest |-> st.max_file_size,
                          smallest |-> IF st.min_file_size = U64_MAX THEN 0
                                       ELSE st.min_file_size])
               ELSE None,
     distribution |-> st.size_distribution]

format_table(st, o) ==
    [format |-> "Table",
     summary |-> Some(summary_header(st)),
     rows |-> IF ~o.summary_only /\ st.entries # << >>
              THEN limited(st.entries, o.limit) ELSE << >>,
     types |-> IF o.show_file_types THEN st.file_types ELSE NoTypes,
     document |-> None]

\* serde_json::to_string_pretty(stats): every field as it is
format_json(st, o) ==
    [format |-> "Json", summary |-> None, rows |-> << >>, types |-> NoTypes,
     document |-> Some(st)]

format_csv(st, o) ==
    [format |-> "Csv", summary |-> None, rows |-> limited(st.entries, o.limit),
     types |-> NoTypes, document |-> None]

format_summary(st, o) ==
    [format |-> "Summary",
     summary |-> Some([total_files |-> st.total_files,
                       total_dirs |-> st.total_dirs,
                       total_size |-> st.total_size,
                       sizes |-> Some([average |-> st.avg_file_size]),
                       distribution |-> None]),
     rows |-> << >>, types |-> NoTypes, document |-> None]

format_output(st, format, o) ==
    CASE format = "Table" -> format_table(st, o)
      [] format = "Json" -> format_json(st, o)
      [] format = "Csv" -> format_csv(st, o)
      [] format = "Summary" -> format_summary(st, o)

(***************************************************************************)
(* main.rs                                                                 *)
(***************************************************************************)
\* create_file_filters: min-size is parsed first, then max-size
create_file_filters(c) ==
    LET lo == get_size_bytes(c.min_size)
        hi == get_size_bytes(c.max_size)
    IN  IF ~lo.ok THEN Err("Config")
        ELSE IF ~hi.ok THEN Err("Config")
        ELSE Ok([extensions |-> parse_extensions(c), min_size |-> lo.value,
                 max_size |-> hi.value, files_only |-> FALSE,
                 dirs_only |-> FALSE])

has_active_filters(f) ==
    \/ f.extensions # None
    \/ f.min_size # None
    \/ f.max_size # None
    \/ f.files_only
    \/ f.dirs_only

NoFilters ==
    [extensions |-> None, min_size |-> None, max_size |-> None,
     files_only |-> FALSE, dirs_only |-> FALSE]

\* run: the path is validated before anything else
run_path_missing_never(exists) == FALSE
run_path_missing(exists) == ~exists

\* run: cli.path.exists() is false
RunNotFound ==
    /\ pc = "run"
    /\ run_path_missing(<< >> \in DOMAIN fs)
    /\ runResult' = Err("PathNotFound")
    /\ pc' = "done"
    /\ UNCHANGED <<fsVars, config, entries, steps, scanVars, statVars, filters,
                   kept, sorts, output>>

\* run: the path exists; the Config is made and scan_directory is called
RunConfig ==
    /\ pc = "run"
    /\ ~run_path_missing(<< >> \in DOMAIN fs)
    /\ config' = to_config(cli)
    /\ pc' = "scan"
    /\ UNCHANGED <<fsVars, entries, steps, scanVars, statVars, runVars>>

\* run: scan_directory(..)? returned an error
RunScanFailed ==
    /\ pc = "scanned"
    /\ ~scanResult.ok
    /\ runResult' = Err(scanResult.error)
    /\ pc' = "done"
    /\ UNCHANGED <<fsVars, config, entries, steps, scanVars, statVars, filters,
                   kept, sorts, output>>

\* run: scan_directory returned the entries
RunScanned ==
    /\ pc = "scanned"
    /\ scanResult.ok
    /\ entries' = scanResult.value
    /\ pc' = "filters"
    /\ UNCHANGED <<fsVars, config, steps, scanVars, statVars, runVars>>

\* run: create_file_filters(&cli)? returned the configuration error
RunFiltersInvalid ==
    /\ pc = "filters"
    /\ ~create_file_filters(cli).ok
    /\ runResult' = Err(create_file_filters(cli).error)
    /\ pc' = "done"
    /\ UNCHANGED <<fsVars, config, entries, steps, scanVars, statVars, filters,
                   kept, sorts, output>>

\* run: the filters are built, and applied when one is active
RunFilter ==
    /\ pc = "filters"
    /\ create_file_filters(cli).ok
    /\ LET f == create_file_filters(cli).value
       IN  /\ filters' = f
           /\ IF has_active_filters(f)
              THEN /\ entries' = filter_entries(entries, f)
                   /\ kept' = Append(kept, filter_entries(entries, f))
                   /\ steps' = Append(steps, "filter")
              ELSE UNCHANGED <<entries, kept, steps>>
    /\ pc' = "sort"
    /\ UNCHANGED <<fsVars, config, scanVars, statVars, sorts, output, runResult>>

\* run: sort_entries(&mut entries, config.sort_by)
RunSort ==
    /\ pc = "sort"
    /\ entries' = sort_entries(entries, config.sort_by)
    /\ sorts' = Append(sorts, entries)
    /\ steps' = Append(steps, "sort")
    /\ pc' = "stats"
    /\ UNCHANGED <<fsVars, config, scanVars, statVars, filters, kept, output,
                   runResult>>

\* run: the FormatterOptions are made, format_output writes, Ok(())
RunFormat ==
    /\ pc = "aggregated"
    /\ output' = format_output(stats, config.format,
                    [limit |-> cli.limit, summary_only |-> cli.summary_only,
                     show_file_types |-> ~cli.summary_only])
    /\ steps' = Append(steps, "format")
    /\ runResult' = Ok("unit")
    /\ pc' = "done"
    /\ UNCHANGED <<fsVars, config, entries, scanVars, statVars, filters, kept,
                   sorts>>

(***************************************************************************)
(* The specifications.                                                     *)
(***************************************************************************)
DefaultConfig ==
    [format |-> "Table", sort_by |-> "Name", show_hidden |-> FALSE,
     recursive |-> TRUE, max_depth |-> None]

DefaultCli ==
    [format |-> "Table", sort |-> "Name", all |-> FALSE, no_recursive |-> FALSE,
     depth |-> None, limit |-> None, summary_only |-> FALSE,
     extensions |-> None, min_size |-> None, max_size |-> None]

DepthArgs == {None} \cup {Some(d) : d \in 0..MaxDepthArg}
Formats == {"Table", "Json", "Csv", "Summary"}
SortKeys == {"Name", "Size", "Modified", "Type"}
SizeArgs ==
    {None, Some(<<"1", "k", "b">>), Some(<<"5", "0", "0">>),
     Some(<<"a", "b", "c">>), Some(<<"1", "x", "b">>)}
ExtensionArgs == {None, Some(<<"T", ",", " ", "x">>), Some(<<",">>)}

\* the command lines of the model: one group of options varies at a time
CliInputs ==
    { [DefaultCli EXCEPT !.format = f, !.limit = l, !.summary_only = so] :
        f \in Formats, l \in {None, Some(0), Some(1)}, so \in BOOLEAN }
    \cup { [DefaultCli EXCEPT !.sort = k, !.all = TRUE] : k \in SortKeys }
    \cup { [DefaultCli EXCEPT !.all = a, !.no_recursive = nr, !.depth = d] :
             a \in BOOLEAN, nr \in BOOLEAN, d \in {None, Some(1)} }
    \cup { [DefaultCli EXCEPT !.extensions = e, !.all = TRUE] : e \in ExtensionArgs }
    \cup { [DefaultCli EXCEPT !.min_size = lo, !.all = TRUE] : lo \in SizeArgs }
    \cup { [DefaultCli EXCEPT !.max_size = hi, !.all = TRUE] : hi \in SizeArgs }
    \cup { [DefaultCli EXCEPT !.extensions = Some(<<"t">>),
                              !.min_size = Some(<<"5", "0", "0">>),
                              !.max_size = hi] : hi \in SizeArgs }

\* the file systems of the runs: regular files and directories only
RunFileSystems ==
    {f \in FileSystems : \A p \in DOMAIN f : p = << >> \/ f[p] \in {"file", "dir"}}

ScanConfigs ==
    [format : {"Table"}, sort_by : {"Name"}, show_hidden : BOOLEAN,
     recursive : BOOLEAN, max_depth : DepthArgs]

\* the entry lists handed to calculate_stats on its own: any entries, also
\* ones no scan builds (a directory with a size or a type)
SampleEntries ==
    [path : {<<<<"r">>, NameFile>>}, size : {0, 500, 2000}, is_dir : BOOLEAN,
     modified : {0}, permissions : {420},
     file_type : {None, Some(<<"t">>)}]
RECURSIVE ListsUpTo(_)
ListsUpTo(n) ==
    IF n = 0 THEN {<< >>}
    ELSE LET S == ListsUpTo(n - 1)
         IN  S \cup {Append(l, e) : l \in {x \in S : Len(x) = n - 1},
                                    e \in SampleEntries}
EntryLists == ListsUpTo(MaxLen)

Idle ==
    /\ todo = << >>
    /\ scanResult = NoResult
    /\ failed = {}
    /\ unreadable = {}
    /\ queried = {}
    /\ visits = << >>
    /\ nfail = 0
    /\ filters = NoFilters
    /\ kept = << >>
    /\ sorts = << >>
    /\ stats = FileStats_new
    /\ file_sizes = << >>
    /\ idx = 0
    /\ output = NoOutput
    /\ runResult = NoResult
    /\ steps = << >>

\* run(cli), from the command line to the output
Init ==
    /\ fs \in RunFileSystems
    /\ root \in RootNames
    /\ cli \in CliInputs
    /\ config = DefaultConfig
    /\ pc = "run"
    /\ entries = << >>
    /\ Idle

\* (scan_directory's own not-found return cannot follow run's check of the
\* same path, and the sizes of these file systems are far from an overflow
\* of total_size)
Next ==
    \/ RunNotFound
    \/ RunConfig
    \/ ScanSingle
    \/ ScanWalk
    \/ WalkStep
    \/ ScanReturn
    \/ RunScanFailed
    \/ RunScanned
    \/ RunFiltersInvalid
    \/ RunFilter
    \/ RunSort
    \/ StatsBegin
    \/ StatsStep
    \/ StatsFinish
    \/ RunFormat

Spec == Init /\ [][Next]_vars

\* scan_directory(path, config) called on its own, with every Config
InitScan ==
    /\ fs \in FileSystems
    /\ root \in RootNames
    /\ cli = DefaultCli
    /\ config \in ScanConfigs
    /\ pc = "scan"
    /\ entries = << >>
    /\ Idle

NextScan == ScanNotFound \/ ScanSingle \/ ScanWalk \/ WalkStep \/ ScanReturn

SpecScan == InitScan /\ [][NextScan]_vars

\* calculate_stats(entries) called on its own, with every entry list
InitStats ==
    /\ fs = NoRoot
    /\ root = <<"r">>
    /\ cli = DefaultCli
    /\ config = DefaultConfig
    /\ pc = "stats"
    /\ entries \in EntryLists
    /\ Idle

NextStats == StatsBegin \/ StatsStep \/ StatsFinish

SpecStats == InitStats /\ [][NextStats]_vars

\* calculate_stats(entries) on the sizes at the edges of the buckets; at most
\* one entry of a list has a size of 2^30 - 1 or more, so that total_size
\* stays within TLC's integers
BucketSizes ==
    {0, 1023, 1024, 1048575, 1048576, 104857599, 104857600, 1073741823,
     1073741824, 1073741825}
BucketEntries ==
    [path : {<<<<"r">>, NameFile>>}, size : BucketSizes, is_dir : BOOLEAN,
     modified : {0}, permissions : {420}, file_type : {None}]
RECURSIVE BucketListsUpTo(_)
BucketListsUpTo(n) ==
    IF n = 0 THEN {<< >>}
    ELSE LET S == BucketListsUpTo(n - 1)
         IN  S \cup {Append(l, e) : l \in {x \in S : Len(x) = n - 1},
                                    e \in BucketEntries}
BucketLists ==
    {l \in BucketListsUpTo(MaxBucketLen) :
        Cardinality({i \in DOMAIN l : l[i].size >= 1073741823}) <= 1}

InitBuckets ==
    /\ fs = NoRoot
    /\ root = <<"r">>
    /\ cli = DefaultCli
    /\ config = DefaultConfig
    /\ pc = "stats"
    /\ entries \in BucketLists
    /\ Idle

SpecBuckets == InitBuckets /\ [][NextStats]_vars

\* filter_entries(entries, filters) called on its own, then again on what it
\* returned, with every list and every FileFilters
FilterEntries ==
    [path : {<<<<"r">>, NameFile>>}, size : {0, 500, 2000}, is_dir : BOOLEAN,
     modified : {0}, permissions : {420},
     file_type : {None, Some(<<"t">>)}]
RECURSIVE FilterListsUpTo(_)
FilterListsUpTo(n) ==
    IF n = 0 THEN {<< >>}
    ELSE LET S == FilterListsUpTo(n - 1)
         IN  S \cup {Append(l, e) : l \in {x \in S : Len(x) = n - 1},
                                    e \in FilterEntries}
FilterSets ==
    [extensions : {None, Some(<< >>), Some(<<<<"t">>>>),
                   Some(<<<<"x">>, <<"t">>>>)},
     min_size : {None, Some(500), Some(2000)},
     max_size : {None, Some(500), Some(0)},
     files_only : BOOLEAN, dirs_only : BOOLEAN]

FilterCall ==
    /\ pc = "filter"
    /\ Len(kept) < MaxFilterCalls
    /\ kept' = Append(kept, filter_entries(IF kept = << >> THEN entries
                                           ELSE Last(kept), filters))
    /\ UNCHANGED <<fsVars, config, pc, entries, steps, scanVars, statVars,
                   filters, sorts, output, runResult>>

InitFilter ==
    /\ fs = NoRoot
    /\ root = <<"r">>
    /\ cli = DefaultCli
    /\ config = DefaultConfig
    /\ pc = "filter"
    /\ entries \in FilterListsUpTo(MaxFilterLen)
    /\ todo = << >>
    /\ scanResult = NoResult
    /\ failed = {}
    /\ unreadable = {}
    /\ queried = {}
    /\ visits = << >>
    /\ nfail = 0
    /\ filters \in FilterSets
    /\ kept = << >>
    /\ sorts = << >>
    /\ stats = FileStats_new
    /\ file_sizes = << >>
    /\ idx = 0
    /\ output = NoOutput
    /\ runResult = NoResult
    /\ steps = << >>

NextFilter == FilterCall

SpecFilter == InitFilter /\ [][NextFilter]_vars

\* the run on the scenario tree, a.txt (500 bytes), b.log (2000 bytes) and
\* d/ holding c.txt (2000000 bytes), with --extensions log and no query
\* that fails
ScenarioTree ==
    (<< >> :> "dir") @@ (<<NameTxt>> :> "file") @@ (<<NameLog>> :> "file")
    @@ (<<NameSub>> :> "dir") @@ (<<NameSub, NameNested>> :> "file")
ScenarioClis ==
    { [DefaultCli EXCEPT !.extensions = Some(<<"l", "o", "g">>),
                         !.format = f, !.sort = k] :
        f \in Formats, k \in SortKeys }

InitScenario ==
    /\ fs = ScenarioTree
    /\ root = <<"r">>
    /\ cli \in ScenarioClis
    /\ config = DefaultConfig
    /\ pc = "run"
    /\ entries = << >>
    /\ todo = << >>
    /\ scanResult = NoResult
    /\ failed = {}
    /\ unreadable = {}
    /\ queried = {}
    /\ visits = << >>
    /\ nfail = MaxFailures
    /\ filters = NoFilters
    /\ kept = << >>
    /\ sorts = << >>
    /\ stats = FileStats_new
    /\ file_sizes = << >>
    /\ idx = 0
    /\ output = NoOutput
    /\ runResult = NoResult
    /\ steps = << >>

NextScenario ==
    \/ RunConfig
    \/ ScanWalk
    \/ WalkStep
    \/ ScanReturn
    \/ RunScanned
    \/ RunFilter
    \/ RunSort
    \/ StatsBegin
    \/ StatsStep
    \/ StatsFinish
    \/ RunFormat

SpecScenario == InitScenario /\ [][NextScenario]_vars

\* sort_entries(&mut entries, sort_by) called on its own, then again on the
\* sorted list, with every criterion; the entries are those of the scenario
\* tree and a file without extension: a.txt and d/c.txt tie in size, time
\* and type, d and the file without extension tie in size
SortSamples ==
    { [path |-> <<<<"r">>, NameTxt>>, size |-> 500, is_dir |-> FALSE,
       modified |-> 1, permissions |-> 420, file_type |-> Some(<<"t", "x", "t">>)],
      [path |-> <<<<"r">>, NameLog>>, size |-> 2000, is_dir |-> FALSE,
       modified |-> 2, permissions |-> 420, file_type |-> Some(<<"l", "o", "g">>)],
      [path |-> <<<<"r">>, NameSub>>, size |-> 0, is_dir |-> TRUE,
       modified |-> 2, permissions |-> 493, file_type |-> None],
      [path |-> <<<<"r">>, NameSub, NameNested>>, size |-> 500, is_dir |-> FALSE,
       modified |-> 1, permissions |-> 420, file_type |-> Some(<<"t", "x", "t">>)],
      [path |-> <<<<"r">>, NameHidden>>, size |-> 0, is_dir |-> FALSE,
       modified |-> 3, permissions |-> 420, file_type |-> None] }
RECURSIVE SortListsUpTo(_)
SortListsUpTo(n) ==
    IF n = 0 THEN {<< >>}
    ELSE LET S == SortListsUpTo(n - 1)
         IN  S \cup {Append(l, e) : l \in {x \in S : Len(x) = n - 1},
                                    e \in SortSamples}

SortCall ==
    /\ pc = "sorting"
    /\ Len(sorts) < MaxSortCalls
    /\ entries' = sort_entries(entries, config.sort_by)
    /\ sorts' = Append(sorts, entries)
    /\ UNCHANGED <<fsVars, config, pc, steps, scanVars, statVars, filters, kept,
                   output, runResult>>

InitSort ==
    /\ fs = NoRoot
    /\ root = <<"r">>
    /\ cli = DefaultCli
    /\ config \in {[DefaultConfig EXCEPT !.sort_by = k] : k \in SortKeys}
    /\ pc = "sorting"
    /\ entries \in SortListsUpTo(MaxSortLen)
    /\ Idle

NextSort == SortCall

SpecSort == InitSort /\ [][NextSort]_vars

\* calculate_stats(entries) on sizes next to u64::MAX, in a build with
\* overflow checks and in one without
OverflowEntries ==
    [path : {<<<<"r">>, NameFile>>}, size : {1, 1073741824, U64_MAX - 1, U64_MAX},
     is_dir : BOOLEAN, modified : {0}, permissions : {420},
     file_type : {None, Some(<<"t">>)}]
RECURSIVE OverflowListsUpTo(_)
OverflowListsUpTo(n) ==
    IF n = 0 THEN {<< >>}
    ELSE LET S == OverflowListsUpTo(n - 1)
         IN  S \cup {Append(l, e) : l \in {x \in S : Len(x) = n - 1},
                                    e \in OverflowEntries}

InitOverflow ==
    /\ fs = NoRoot
    /\ root = <<"r">>
    /\ cli = DefaultCli
    /\ config = DefaultConfig
    /\ pc = "stats"
    /\ entries \in OverflowListsUpTo(MaxOverflowLen)
    /\ Idle

NextOverflow == StatsBegin \/ StatsStep \/ StatsPanic \/ StatsFinish

SpecOverflow == InitOverflow /\ [][NextOverflow]_vars

(***************************************************************************)
(* The claims.                                                             *)
(***************************************************************************)
Scanned == pc = "scanned"
Returned == IF scanResult.ok THEN scanResult.value ELSE << >>
RootIsDir == << >> \in DOMAIN fs /\ fs[<< >>] = "dir"
Below == DOMAIN fs \ {<< >>}
HasEntry(p) == \E i \in DOMAIN Returned : Returned[i].path = PathOf(p)
ProperPrefixes(p) == {SubSeq(p, 1, k) : k \in 0..(Len(p) - 1)}
UnderUnreadable(p) == \E q \in ProperPrefixes(p) : q \in unreadable
DepthOf(e) == Len(e.path) - 1

\* the depth policy and the hidden policy as the specification words them
DepthAdmits(d) ==
    /\ ~config.recursive => d <= 1
    /\ (config.recursive /\ config.max_depth # None) => d <= config.max_depth[1]
HiddenAdmits(p) == config.show_hidden \/ ~BeginsWithDot(PathOf(p))

\* C1: a scan of a directory root returns Ok whatever metadata queries and
\* directory reads fail below the root; the list has no entry for a path
\* whose query failed or that lies under an unreadable directory, and has
\* an entry for every other path the hidden and depth policy admits.
C1_PerEntryFailuresOmitted ==
    (Scanned /\ RootIsDir) =>
        /\ scanResult.ok
        /\ \A p \in Below :
             /\ (p \in failed \/ UnderUnreadable(p)) => ~HasEntry(p)
             /\ ( /\ DepthAdmits(Len(p))
                  /\ HiddenAdmits(p)
                  /\ p \notin failed
                  /\ ~UnderUnreadable(p) ) => HasEntry(p)

C1_Witness ==
    /\ Scanned
    /\ RootIsDir
    /\ scanResult.ok
    /\ \E p \in Below : p \in failed
    /\ \E q \in Below : q \in unreadable /\ HasEntry(q)

\* C2: scan_directory returns an error only when the root does not exist:
\* with a root that exists it returns Ok, and its only error is not-found.
C2_OnlyNotFoundIsFatal ==
    Scanned =>
        IF << >> \in DOMAIN fs THEN scanResult.ok
        ELSE scanResult = Err("PathNotFound")

\* C3: when the root does not exist the run ends with PathNotFound and no
\* step of the pipeline has been taken: no scan, filter, sort, statistics
\* or output.
C3_MissingRootStopsTheRun ==
    (<< >> \notin DOMAIN fs) =>
        /\ pc \in {"run", "done"}
        /\ pc = "done" => runResult = Err("PathNotFound")
        /\ steps = << >>
        /\ entries = << >>
        /\ scanResult = NoResult
        /\ stats = FileStats_new
        /\ output = NoOutput

C3_Witness ==
    /\ << >> \notin DOMAIN fs
    /\ pc = "done"
    /\ runResult = Err("PathNotFound")

\* C4: a run that ends with the configuration error of an unparsable
\* --min-size or --max-size has not called scan_directory.
C4_ConfigErrorBeforeScan ==
    (pc = "done" /\ runResult = Err("Config")) => ~Contains(steps, "scan")

\* C5: with show_hidden = false no entry of a directory root's scan has a
\* name beginning with '.', and create_file_entry is not invoked for such a
\* path; with show_hidden = true the path is returned.
C5_HiddenExcluded ==
    (Scanned /\ RootIsDir) =>
        \A p \in Below :
            BeginsWithDot(PathOf(p)) =>
                IF ~config.show_hidden
                THEN ~HasEntry(p) /\ p \notin queried
                ELSE ( /\ DepthAdmits(Len(p))
                       /\ p \notin failed
                       /\ ~UnderUnreadable(p) ) => HasEntry(p)

\* C6: every entry of a directory root's scan lies at a depth d with
\* 1 <= d, d <= 1 when recursive is false whatever max_depth is, and
\* d <= max_depth when recursive is true and max_depth is set.
C6_DepthLimited ==
    (pc \in {"walk", "scanned"} /\ RootIsDir) =>
        /\ \A i \in DOMAIN entries :
             1 <= DepthOf(entries[i]) /\ DepthAdmits(DepthOf(entries[i]))
        /\ \A i \in DOMAIN Returned :
             1 <= DepthOf(Returned[i]) /\ DepthAdmits(DepthOf(Returned[i]))

C6_Witness ==
    /\ Scanned
    /\ RootIsDir
    /\ ~config.recursive
    /\ config.max_depth = Some(2)
    /\ \E p \in Below : Len(p) = 2 /\ ~BeginsWithDot(PathOf(p)) /\ ~HasEntry(p)
    /\ \E p \in Below : Len(p) = 1 /\ HasEntry(p)

C8_FileRootSingleEntry ==
    (Scanned /\ << >> \in DOMAIN fs /\ fs[<< >>] = "file") =>
        /\ scanResult.ok
        /\ Len(Returned) = 1
        /\ Returned[1].path = <<root>>
        /\ ~Returned[1].is_dir
        /\ Returned[1].size = FileLen(<< >>)
        /\ visits = << >>

\* C9: the walker does not follow symbolic links: every path it yields is a
\* path of the tree reached through directories only, no path is yielded
\* twice, so the yields and the pending paths never outnumber the objects
\* of the tree and the scan ends, also when links point to an ancestor.
NoRepeat(s) == \A i, j \in DOMAIN s : s[i] = s[j] => i = j
ThroughLink(p) ==
    \E q \in ProperPrefixes(p) : q \notin DOMAIN fs \/ fs[q] = "symlink"
C9_LinksNotFollowed ==
    (pc \in {"walk", "scanned"} /\ RootIsDir) =>
        /\ NoRepeat(visits)
        /\ \A i \in DOMAIN visits :
             visits[i] \in DOMAIN fs /\ ~ThroughLink(visits[i])
        /\ \A i \in DOMAIN entries :
             ~ThroughLink(Tail(entries[i].path))
        /\ Len(visits) + Len(todo) <= Cardinality(DOMAIN fs)
        /\ pc = "walk" => (todo # << >> \/ ENABLED ScanReturn)

C9_Witness ==
    /\ Scanned
    /\ RootIsDir
    /\ walker_max_depth(config) = None
    /\ config.show_hidden
    /\ \E p \in Below :
         /\ fs[p] = "symlink"
         /\ \E i \in DOMAIN Returned :
              Returned[i].path = PathOf(p) /\ Returned[i].is_dir
    /\ Len(visits) = Cardinality(DOMAIN fs)

\* C10: total_files + total_dirs is the number of entries folded so far,
\* after every step of calculate_stats's loop, and the length of the list
\* at its end.
C10_CountsAddUp ==
    (pc \in {"fold", "aggregated"}) =>
        /\ stats.total_files + stats.total_dirs = idx
        /\ pc = "aggregated" =>
             /\ idx = Len(entries)
             /\ stats.total_files + stats.total_dirs = Len(stats.entries)

C10_Witness ==
    /\ pc = "aggregated"
    /\ Len(entries) >= 2
    /\ stats.total_files > 0
    /\ stats.total_dirs > 0

\* the entries calculate_stats has folded so far
Folded == SubSeq(entries, 1, idx)
FilesOf(es) == SelectSeq(es, LAMBDA e : ~e.is_dir)
FilesWithin(lo, hi) ==
    Cardinality({i \in DOMAIN Folded :
        ~Folded[i].is_dir /\ lo <= Folded[i].size /\ Folded[i].size < hi})
FilesFrom(lo) ==
    Cardinality({i \in DOMAIN Folded : ~Folded[i].is_dir /\ lo <= Folded[i].size})

\* C11: each file is counted in exactly one bucket, tiny [0,1024), small
\* [1024,1048576), medium [1048576,104857600), large [104857600,1073741824),
\* huge from 1073741824, the edge values in the upper bucket; directories
\* are counted in none, and the five buckets add up to total_files.
C11_BucketsPartitionFiles ==
    (pc \in {"fold", "aggregated"}) =>
        LET d == stats.size_distribution
        IN  /\ d.tiny = FilesWithin(0, 1024)
            /\ d.small = FilesWithin(1024, 1048576)
            /\ d.medium = FilesWithin(1048576, 104857600)
            /\ d.large = FilesWithin(104857600, 1073741824)
            /\ d.huge = FilesFrom(1073741824)
            /\ d.tiny + d.small + d.medium + d.large + d.huge = stats.total_files

C11_Witness ==
    /\ pc = "aggregated"
    /\ \E i, j \in DOMAIN entries :
         /\ ~entries[i].is_dir /\ entries[i].size = 1073741824
         /\ entries[j].is_dir /\ entries[j].size = 1024
    /\ stats.size_distribution.huge = 1
    /\ stats.size_distribution.small = 0
    /\ stats.total_files = 1

FileSizesOf(es) == {es[i].size : i \in {j \in DOMAIN es : ~es[j].is_dir}}

\* C12: when the list has files, avg_file_size is total_size divided by
\* total_files (integer division), max_file_size is the largest and
\* min_file_size the smallest size of a file of the list; when it has none,
\* avg_file_size and max_file_size are 0.
C12_AverageAndExtremes ==
    (pc = "aggregated") =>
        LET sizes == FileSizesOf(entries)
        IN  /\ stats.total_files = Len(FilesOf(entries))
            /\ stats.total_files > 0 =>
                 /\ stats.avg_file_size = stats.total_size \div stats.total_files
                 /\ stats.max_file_size \in sizes
                 /\ stats.min_file_size \in sizes
                 /\ \A x \in sizes :
                      stats.min_file_size <= x /\ x <= stats.max_file_size
            /\ stats.total_files = 0 =>
                 stats.avg_file_size = 0 /\ stats.max_file_size = 0

C12_Witness ==
    /\ pc = "aggregated"
    /\ stats.total_files = 3
    /\ stats.total_size = 2500
    /\ stats.avg_file_size = 833
    /\ stats.max_file_size = 2000
    /\ stats.min_file_size = 0

\* the key a file is counted under
TypeKey(e) == IF e.file_type = None THEN NoExtension ELSE e.file_type[1]
FoldedFilesOfType(k) ==
    SelectSeq(Folded, LAMBDA e : ~e.is_dir /\ TypeKey(e) = k)
RECURSIVE SumOfSizes(_)
SumOfSizes(es) == IF es = << >> THEN 0 ELSE Head(es).size + SumOfSizes(Tail(es))
RECURSIVE SumOverTypes(_, _, _)
SumOverTypes(ft, keys, field) ==
    IF keys = {} THEN 0
    ELSE LET k == CHOOSE x \in keys : TRUE
         IN  ft[k][field] + SumOverTypes(ft, keys \ {k}, field)

\* C13: the keys of file_types are the types of the files of the list, a
\* file without file_type being counted under "no_extension"; each key
\* carries the number and the total size of its files, so the counts add up
\* to total_files and the sizes to total_size, every count is positive and
\* avg_size is total_size divided by count in the statistics returned.
C13_TypesPartitionFiles ==
    (pc \in {"fold", "aggregated"}) =>
        LET ft == stats.file_types
        IN  /\ DOMAIN ft = {TypeKey(Folded[i]) :
                              i \in {j \in DOMAIN Folded : ~Folded[j].is_dir}}
            /\ \A k \in DOMAIN ft :
                 /\ ft[k].count = Len(FoldedFilesOfType(k))
                 /\ ft[k].count > 0
                 /\ ft[k].total_size = SumOfSizes(FoldedFilesOfType(k))
                 /\ pc = "aggregated" =>
                      ft[k].avg_size = ft[k].total_size \div ft[k].count
            /\ SumOverTypes(ft, DOMAIN ft, "count") = stats.total_files
            /\ SumOverTypes(ft, DOMAIN ft, "total_size") = stats.total_size

C13_Witness ==
    /\ pc = "aggregated"
    /\ DOMAIN stats.file_types = {NoExtension, <<"t">>}
    /\ stats.file_types[NoExtension].count = 1
    /\ stats.file_types[<<"t">>] = [count |-> 2, total_size |-> 2500, avg_size |-> 1250]
    /\ stats.total_dirs = 0

\* the statistics apart from total_dirs and the stored entries
FileFigures(st) ==
    [total_files |-> st.total_files, total_size |-> st.total_size,
     avg_file_size |-> st.avg_file_size, max_file_size |-> st.max_file_size,
     min_file_size |-> st.min_file_size,
     size_distribution |-> st.size_distribution, file_types |-> st.file_types]

\* C14: total_size is the sum of the sizes of the files of the list, and
\* total_files, the maximum, minimum and average, size_distribution and
\* file_types are those of the list without its directories, also when a
\* directory entry carries a size or a file_type; the directories are
\* counted in total_dirs.
C14_DirectoriesOnlyCounted ==
    /\ (pc \in {"fold", "aggregated"}) =>
         /\ stats.total_size = SumOfSizes(FilesOf(Folded))
         /\ stats.total_dirs = Len(Folded) - Len(FilesOf(Folded))
    /\ (pc = "aggregated") =>
         /\ stats = calculate_stats(entries)
         /\ FileFigures(stats) = FileFigures(calculate_stats(FilesOf(entries)))

C14_Witness ==
    /\ pc = "aggregated"
    /\ \E i, j \in DOMAIN entries :
         /\ entries[i].is_dir /\ entries[i].size = 2000
         /\ entries[i].file_type = Some(<<"t">>)
         /\ ~entries[j].is_dir /\ entries[j].size = 500
         /\ entries[j].file_type = None
    /\ stats.total_size = 500
    /\ stats.max_file_size = 500
    /\ DOMAIN stats.file_types = {NoExtension}
    /\ stats.total_dirs = 2

\* C15: when the list has no file, the min_file_size of the FileStats that
\* calculate_stats returns is 0, and so is the min_file_size every output
\* format writes; the sentinel u64::MAX is never seen.
C15_SentinelNeverLeaks ==
    (pc \in {"aggregated", "done"} /\ Contains(steps, "aggregate")
        /\ stats.total_files = 0) =>
        /\ stats.min_file_size = 0
        /\ output.document # None => output.document[1].min_file_size = 0
        /\ ( /\ output.summary # None
             /\ output.summary[1].sizes # None
             /\ "smallest" \in DOMAIN output.summary[1].sizes[1] ) =>
               output.summary[1].sizes[1].smallest = 0

\* C16: filtering what filter_entries returned, with the same filters,
\* returns the same list.
C16_FilterIdempotent ==
    (pc = "filter") => \A i \in DOMAIN kept : kept[i] = kept[1]

C16_Witness ==
    /\ pc = "filter"
    /\ Len(kept) = 2
    /\ Len(entries) = 2
    /\ Len(kept[2]) = 1
    /\ filters.extensions # None
    /\ filters.min_size # None

RECURSIVE IsSubsequence(_, _)
IsSubsequence(a, b) ==
    IF a = << >> THEN TRUE
    ELSE IF b = << >> THEN FALSE
    ELSE IF Head(a) = Head(b) THEN IsSubsequence(Tail(a), Tail(b))
    ELSE IsSubsequence(a, Tail(b))

\* C17: what filter_entries returns is a subsequence of its input, the
\* surviving entries in their order and unchanged; it equals the input when
\* no filter is set; the call changes neither the input list nor the
\* filters.
C17_FilterSelectsInOrder ==
    /\ []((pc = "filter" /\ kept # << >>) =>
            /\ IsSubsequence(kept[1], entries)
            /\ filters = NoFilters => kept[1] = entries)
    /\ [][pc = "filter" => (entries' = entries /\ filters' = filters)]_vars

C17_Witness ==
    /\ pc = "filter"
    /\ kept # << >>
    /\ Len(entries) = 2
    /\ entries[1] # entries[2]
    /\ kept[1] = entries
    /\ filters # NoFilters

\* whether the first call of filter_entries returned the entry
Passed(e) == Contains(kept[1], e)
ExtensionAdmits(e) ==
    filters.extensions = None
    \/ (e.file_type # None /\ Contains(filters.extensions[1], e.file_type[1]))
SizeAdmits(e) ==
    /\ filters.min_size = None \/ e.size >= filters.min_size[1]
    /\ filters.max_size = None \/ e.size <= filters.max_size[1]

\* C18: with an allow-list, a file passes only if it has a file_type and
\* the allow-list holds it, and it does pass then unless another filter
\* rejects it; a directory is never rejected by the extension filter,
\* it passes whenever files_only is not set.
C18_ExtensionFilter ==
    (pc = "filter" /\ kept # << >>) =>
        \A i \in DOMAIN entries :
            LET e == entries[i]
            IN  /\ (~e.is_dir /\ Passed(e)) => ExtensionAdmits(e)
                /\ ( /\ ~e.is_dir
                     /\ filters.min_size = None
                     /\ filters.max_size = None
                     /\ ~filters.dirs_only ) => (Passed(e) <=> ExtensionAdmits(e))
                /\ (e.is_dir /\ ~filters.files_only) => Passed(e)

C18_Witness ==
    /\ pc = "filter"
    /\ kept # << >>
    /\ filters.extensions = Some(<<<<"t">>>>)
    /\ Len(entries) = 2
    /\ ~entries[1].is_dir /\ entries[1].file_type = None
    /\ entries[2].is_dir /\ entries[2].file_type = None
    /\ kept[1] = <<entries[2]>>

\* C19: a file passes the size filter exactly when its size is at least
\* min_size and at most max_size, where set, so a file of exactly min_size
\* or max_size is kept; a directory is never rejected by the size filter.
C19_SizeFilterInclusive ==
    (pc = "filter" /\ kept # << >>) =>
        \A i \in DOMAIN entries :
            LET e == entries[i]
            IN  /\ (~e.is_dir /\ Passed(e)) => SizeAdmits(e)
                /\ ( /\ ~e.is_dir
                     /\ filters.extensions = None
                     /\ ~filters.dirs_only ) => (Passed(e) <=> SizeAdmits(e))
                /\ (e.is_dir /\ ~filters.files_only /\ ~SizeAdmits(e)) => Passed(e)

C19_Witness ==
    /\ pc = "filter"
    /\ kept # << >>
    /\ filters.min_size = Some(500)
    /\ filters.max_size = Some(500)
    /\ Len(entries) = 2
    /\ ~entries[1].is_dir /\ entries[1].size = 500
    /\ entries[2].is_dir /\ entries[2].size = 2000
    /\ kept[1] = entries

PathsOf(es) == {es[i].path : i \in DOMAIN es}
Filtered == pc \in {"sort", "stats", "fold", "aggregated", "done"}

\* C20: on the scenario tree, the recursive scan filtered with the
\* extensions ["log"] holds b.log and no other entry of any kind, and the
\* statistics have total_files = 1.
C20_OnlyTheLogFile ==
    /\ Filtered =>
         /\ Len(entries) = 1
         /\ PathsOf(entries) = {<<<<"r">>, NameLog>>}
    /\ (pc \in {"aggregated", "done"}) => stats.total_files = 1

\* C20 as amended: the filtered result holds b.log as its only file and,
\* with it, the directory d, which the extension filter does not reject;
\* the statistics have total_files = 1 and total_dirs = 1.
C20_OnlyTheLogFileAndTheDirectory ==
    /\ Filtered =>
         /\ Len(entries) = 2
         /\ PathsOf(entries) = {<<<<"r">>, NameLog>>, <<<<"r">>, NameSub>>}
         /\ PathsOf(FilesOf(entries)) = {<<<<"r">>, NameLog>>}
         /\ filters.extensions = Some(<<<<"l", "o", "g">>>>)
    /\ (pc \in {"aggregated", "done"}) =>
         /\ stats.total_files = 1
         /\ stats.total_dirs = 1
         /\ stats.total_size = 2000

C20_Witness ==
    /\ pc = "done"
    /\ runResult = Ok("unit")
    /\ Len(scanResult.value) = 4
    /\ Len(kept) = 1
    /\ Len(kept[1]) = 2
    /\ stats.total_files = 1
    /\ stats.file_types = (<<"l", "o", "g">> :> [count |-> 1, total_size |-> 2000, avg_size |-> 2000])

\* the lexicographic order of names, byte by byte, and of paths, component
\* by component: a proper prefix comes first, otherwise the first difference
\* decides
NameLess(a, b) ==
    \E k \in 0..Min(Len(a), Len(b)) :
        /\ SubSeq(a, 1, k) = SubSeq(b, 1, k)
        /\ k < Len(b)
        /\ k < Len(a) => ByteCode(a[k + 1]) < ByteCode(b[k + 1])
PathLess(a, b) ==
    \E k \in 0..Min(Len(a), Len(b)) :
        /\ SubSeq(a, 1, k) = SubSeq(b, 1, k)
        /\ k < Len(b)
        /\ k < Len(a) => NameLess(a[k + 1], b[k + 1])
SortedOnce == pc = "sorting" /\ sorts # << >>

\* C21: after sort_entries(Name) the paths are in ascending lexicographic
\* order, and sorting the sorted list by Name again leaves it as it is.
C21_NameAscendingIdempotent ==
    (SortedOnce /\ config.sort_by = "Name") =>
        /\ \A i, j \in DOMAIN entries :
             i < j => ~PathLess(entries[j].path, entries[i].path)
        /\ Len(sorts) = 2 => entries = sorts[2]

C21_Witness ==
    /\ SortedOnce
    /\ config.sort_by = "Name"
    /\ Len(sorts) = 2
    /\ Len(entries) = 3
    /\ sorts[1] # sorts[2]
    /\ PathLess(entries[1].path, entries[2].path)
    /\ PathLess(entries[2].path, entries[3].path)

\* C22: after sort_entries(Size) the sizes never increase along the list,
\* the first entry of a list that holds a file has the largest size of the
\* list, and every directory of size 0 comes after every file of a size
\* above 0.
C22_SizeDescending ==
    (SortedOnce /\ config.sort_by = "Size") =>
        /\ \A i \in 1..(Len(entries) - 1) : entries[i].size >= entries[i + 1].size
        /\ (\E i \in DOMAIN entries : ~entries[i].is_dir) =>
             \A j \in DOMAIN entries : entries[1].size >= entries[j].size
        /\ \A i, j \in DOMAIN entries :
             ( /\ entries[i].is_dir /\ entries[i].size = 0
               /\ ~entries[j].is_dir /\ entries[j].size > 0 ) => j < i

C22_Witness ==
    /\ SortedOnce
    /\ config.sort_by = "Size"
    /\ Len(entries) = 3
    /\ sorts[1][1].is_dir
    /\ sorts[1][2].size = 500
    /\ sorts[1][3].size = 2000
    /\ entries[1].size = 2000
    /\ entries[3].is_dir

\* C23: after sort_entries(Type) every entry with a file_type comes before
\* every entry without one, the entries with a file_type are in ascending
\* order of it, the entries without one in ascending order of their paths;
\* the comparison is antisymmetric and transitive over the entries.
C23_TypeOrder ==
    (SortedOnce /\ config.sort_by = "Type") =>
        /\ \A i, j \in DOMAIN entries :
             i < j =>
               LET a == entries[i]
                   b == entries[j]
               IN  /\ a.file_type = None => b.file_type = None
                   /\ (a.file_type # None /\ b.file_type # None) =>
                        ~NameLess(b.file_type[1], a.file_type[1])
                   /\ (a.file_type = None /\ b.file_type = None) =>
                        ~PathLess(b.path, a.path)
        /\ \A a, b \in SortSamples :
             compare("Type", a, b) = 0 - compare("Type", b, a)
        /\ \A a, b, c \in SortSamples :
             (compare("Type", a, b) <= 0 /\ compare("Type", b, c) <= 0) =>
                compare("Type", a, c) <= 0

C23_Witness ==
    /\ SortedOnce
    /\ config.sort_by = "Type"
    /\ Len(entries) = 3
    /\ sorts[1][1].file_type = None /\ sorts[1][1].is_dir
    /\ sorts[1][2].file_type = Some(<<"t", "x", "t">>)
    /\ sorts[1][3].file_type = Some(<<"l", "o", "g">>)
    /\ entries[1].file_type = Some(<<"l", "o", "g">>)
    /\ entries[3].is_dir

DistinctPaths(es) == \A i, j \in DOMAIN es : es[i].path = es[j].path => i = j

\* C24: for entries with pairwise distinct paths and each of the four
\* criteria, sort_entries gives the same sequence whatever the order of the
\* list it is given.
C24_SortIgnoresInputOrder ==
    (SortedOnce /\ Len(sorts) = 1 /\ DistinctPaths(sorts[1])) =>
        \A other \in Perms(Range(sorts[1])) :
            sort_entries(other, config.sort_by) = entries

\* C25: for every criterion the list after sort_entries is a permutation of
\* the list before it, entry for entry, and entries that compare equal keep
\* the order they had in the input.
C25_SortPermutesStably ==
    SortedOnce =>
        LET given == sorts[Len(sorts)]
        IN  /\ Len(entries) = Len(given)
            /\ \E pi \in Perms(DOMAIN given) :
                 /\ \A i \in DOMAIN entries : entries[i] = given[pi[i]]
                 /\ \A i, j \in DOMAIN entries :
                      (i < j /\ compare(config.sort_by, entries[i], entries[j]) = 0)
                         => pi[i] < pi[j]

C25_Witness ==
    /\ SortedOnce
    /\ Len(sorts) = 1
    /\ config.sort_by = "Size"
    /\ Len(entries) = 3
    /\ sorts[1][1].size = 500 /\ sorts[1][2].size = 2000 /\ sorts[1][3].size = 500
    /\ sorts[1][1] # sorts[1][3]
    /\ entries = <<sorts[1][2], sorts[1][1], sorts[1][3]>>

IsPrefix(a, b) == Len(a) <= Len(b) /\ a = SubSeq(b, 1, Len(a))
PipelineWithFilter == <<"scan", "filter", "sort", "aggregate", "format">>
PipelineWithoutFilter == <<"scan", "sort", "aggregate", "format">>
\* the list the sort step of a run was given: what the filter returned, or
\* what the scan returned when no filter is active
Selected == IF Contains(steps, "filter") THEN kept[1] ELSE scanResult.value

\* C26: the steps of a run are taken in the order scan, filter, sort,
\* aggregate, format (filter only when a filter is active), a successful run
\* has taken them all; the entries stored in FileStats are the filtered,
\* sorted list handed to calculate_stats, element for element, and the
\* formats that list entries write them in that order.
C26_PipelineOrder ==
    /\ IsPrefix(steps, PipelineWithFilter) \/ IsPrefix(steps, PipelineWithoutFilter)
    /\ (pc = "done" /\ runResult.ok) =>
         /\ steps \in {PipelineWithFilter, PipelineWithoutFilter}
         /\ Contains(steps, "filter") <=> has_active_filters(filters)
         /\ sorts = <<Selected>>
         /\ entries = sort_entries(Selected, config.sort_by)
         /\ stats.entries = entries
         /\ IsPrefix(output.rows, entries)
         /\ output.document # None => output.document[1].entries = entries

C26_Witness ==
    /\ pc = "done"
    /\ runResult.ok
    /\ steps = PipelineWithFilter
    /\ Len(scanResult.value) = 2
    /\ Len(entries) = 2
    /\ entries # scanResult.value
    /\ output.rows = entries

\* the file_type the path of an entry calls for: its extension in lower case
ExtensionOf(path) ==
    LET e == extension(path)
    IN  IF e = None \/ to_str(e[1]) = None THEN None
        ELSE Some(to_lowercase(e[1]))

\* C27: every entry a scan returns satisfies: a directory entry has size 0
\* and no file_type; an entry that is not a directory, of whatever kind, has
\* the extension of its path in lower case as file_type, and none when the
\* path has no extension.
C27_EntryShape ==
    Scanned =>
        \A i \in DOMAIN Returned :
            LET e == Returned[i]
            IN  /\ e.is_dir => (e.size = 0 /\ e.file_type = None)
                /\ ~e.is_dir => e.file_type = ExtensionOf(e.path)

\* the exact sum of the sizes, or None when it is above u64::MAX
RECURSIVE ExactSum(_)
ExactSum(es) ==
    IF es = << >> THEN Some(0)
    ELSE LET rest == ExactSum(Tail(es))
         IN  IF rest = None \/ rest[1] > U64_MAX - Head(es).size THEN None
             ELSE Some(rest[1] + Head(es).size)

\* C28: calculate_stats does not abort on any list, also one whose file
\* sizes add up to more than u64::MAX, and total_size and every per-type
\* total_size are the exact sums of the sizes.
C28_ExactSumsNoAbort ==
    /\ pc # "panicked"
    /\ (pc \in {"fold", "aggregated"}) =>
         /\ ExactSum(FilesOf(Folded)) = Some(stats.total_size)
         /\ \A k \in DOMAIN stats.file_types :
              ExactSum(FoldedFilesOfType(k)) = Some(stats.file_types[k].total_size)

\* the formats that list entries, and how many --limit lets through
ListsEntries ==
    \/ output.format = "Csv"
    \/ output.format = "Table" /\ ~cli.summary_only
Listed == IF cli.limit = None THEN Len(stats.entries)
          ELSE Min(cli.limit[1], Len(stats.entries))

\* C29: with --limit N the table and the CSV output list min(N, len)
\* entries, the first ones of FileStats.entries in their order; the
\* statistics are those of all the entries, whatever the limit.
C29_LimitTakesFirst ==
    (pc = "done" /\ runResult.ok) =>
        /\ ListsEntries =>
             /\ Len(output.rows) = Listed
             /\ output.rows = SubSeq(stats.entries, 1, Listed)
        /\ stats = calculate_stats(entries)
        /\ stats.total_files + stats.total_dirs = Len(entries)
        /\ output.summary # None =>
             /\ output.summary[1].total_files = stats.total_files
             /\ output.summary[1].total_dirs = stats.total_dirs
             /\ output.summary[1].total_size = stats.total_size

C29_Witness ==
    /\ pc = "done"
    /\ runResult.ok
    /\ output.format = "Table"
    /\ cli.limit = Some(1)
    /\ Len(stats.entries) = 2
    /\ output.rows = <<stats.entries[1]>>
    /\ output.summary[1].total_files + output.summary[1].total_dirs = 2

HiddenAncestor(p) ==
    \E q \in ProperPrefixes(p) : q # << >> /\ BeginsWithDot(PathOf(q))

\* C30: with show_hidden = false a hidden directory is left out of the
\* result but the walker goes into it, and what lies under it, is not
\* hidden itself and is within the depth limit is returned; a root that is
\* a hidden regular file is returned as the only entry.
C30_HiddenDoesNotPrune ==
    (Scanned /\ ~config.show_hidden) =>
        /\ RootIsDir =>
             \A p \in Below :
                 /\ BeginsWithDot(PathOf(p)) => ~HasEntry(p)
                 /\ ( /\ HiddenAncestor(p)
                      /\ ~BeginsWithDot(PathOf(p))
                      /\ ~ThroughLink(p)
                      /\ DepthAdmits(Len(p))
                      /\ p \notin failed
                      /\ ~UnderUnreadable(p) ) =>
                        (Contains(visits, p) /\ HasEntry(p))
        /\ (<< >> \in DOMAIN fs /\ fs[<< >>] = "file" /\ BeginsWithDot(<<root>>)) =>
             /\ scanResult.ok
             /\ Len(Returned) = 1
             /\ Returned[1].path = <<root>>

====
